---- MODULE Spec2Model ----
(***************************************************************************)
(* lumina: ImageGenerator (src/src/lumina/core.py) as a state machine.     *)
(*                                                                         *)
(* One ImageGenerator instance is modelled.  Its fields are fixed by the   *)
(* constructor; the lazily built client is the only field that changes.    *)
(* generate() is modelled step by step: prompt augmentation and content    *)
(* assembly, ensure_directory, then one step per client request and one    *)
(* step per response part.                                                 *)
(*                                                                         *)
(* The command line (src/src/lumina/cli.py) is modelled on top of it: one  *)
(* step runs main up to its exit or its call of generate.                  *)
(*                                                                         *)
(* Spec is the instance used as a library, SpecCli the instance driven by  *)
(* command-line processes, SpecThreshold the safety-level normalizer alone.*)
(*                                                                         *)
(* Python strings are sequences of one-character strings, so that          *)
(* pathlib's stem/suffix, slicing and str.upper can be computed.           *)
(***************************************************************************)
EXTENDS Integers, Sequences, FiniteSets, TLC

(***************************************************************************)
(* Bounds of the model.                                                    *)
(***************************************************************************)
MaxCount == 2       \* largest count passed to generate
MaxCalls == 1       \* generate calls on the one instance
MaxAccess == 1      \* direct reads of generator.client outside generate

(***************************************************************************)
(* Strings.                                                                *)
(***************************************************************************)
None == <<"<None>">>            \* Python None (no string has this element)
Empty == << >>                  \* ""

Truthy(s) == s # None /\ s # Empty

Digits == <<"0", "1", "2", "3", "4", "5", "6", "7", "8", "9">>

\* str(n) for n >= 0, as in the f-string f"{i}"
RECURSIVE IntToStr(_)
IntToStr(n) == IF n < 10 THEN <<Digits[n + 1]>>
               ELSE IntToStr(n \div 10) \o <<Digits[(n % 10) + 1]>>

\* s[-k:]
LastChars(s, k) == IF Len(s) <= k THEN s ELSE SubSeq(s, Len(s) - k + 1, Len(s))

\* index of the last occurrence of c in s, 0 when there is none (1-based)
RFind(s, c) == IF \E k \in 1..Len(s) : s[k] = c
               THEN CHOOSE k \in 1..Len(s) :
                        s[k] = c /\ \A j \in (k + 1)..Len(s) : s[j] # c
               ELSE 0

\* pathlib: Path(p).name, the final path component
PathName(p) == SubSeq(p, RFind(p, "/") + 1, Len(p))

\* position of the dot that starts the suffix, 0 when the name has no suffix:
\* a leading dot and a trailing dot start no suffix
SuffixDot(name) == LET d == RFind(name, ".")
                   IN  IF d > 1 /\ d < Len(name) THEN d ELSE 0

\* pathlib: Path(p).suffix
PathSuffix(p) == LET name == PathName(p)
                     d    == SuffixDot(name)
                 IN  IF d = 0 THEN Empty ELSE SubSeq(name, d, Len(name))

\* pathlib: Path(p).stem
PathStem(p) == LET name == PathName(p)
                   d    == SuffixDot(name)
               IN  IF d = 0 THEN name ELSE SubSeq(name, 1, d - 1)

\* pathlib: output_dir / current_filename
JoinPath(dir, name) == IF Len(name) > 0 /\ name[1] = "/" THEN name
                       ELSE dir \o <<"/">> \o name

(***************************************************************************)
(* String literals of the program.                                         *)
(***************************************************************************)
DefaultExt == <<".", "p", "n", "g">>                                \* ".png"
ImgToken == <<"i", "m", "g">>                                       \* "img"
UsCentral1 == <<"u", "s", "-", "c", "e", "n", "t", "r", "a", "l", "1">>

BLOCK_SOME == <<"B", "L", "O", "C", "K", "_", "S", "O", "M", "E">>
BLOCK_MOST == <<"B", "L", "O", "C", "K", "_", "M", "O", "S", "T">>
BLOCK_FEW == <<"B", "L", "O", "C", "K", "_", "F", "E", "W">>
BLOCK_NONE == <<"B", "L", "O", "C", "K", "_", "N", "O", "N", "E">>
BLOCK_ONLY_HIGH ==
    <<"B", "L", "O", "C", "K", "_", "O", "N", "L", "Y", "_", "H", "I", "G", "H">>
BLOCK_LOW_AND_ABOVE ==
    <<"B", "L", "O", "C", "K", "_", "L", "O", "W", "_", "A", "N", "D", "_",
      "A", "B", "O", "V", "E">>

LowerLetters == <<"a", "b", "c", "d", "e", "f", "g", "h", "i", "j", "k", "l", "m",
                  "n", "o", "p", "q", "r", "s", "t", "u", "v", "w", "x", "y", "z">>
UpperLetters == <<"A", "B", "C", "D", "E", "F", "G", "H", "I", "J", "K", "L", "M",
                  "N", "O", "P", "Q", "R", "S", "T", "U", "V", "W", "X", "Y", "Z">>

\* str.upper on one character
UpperChar(c) == IF \E k \in 1..Len(LowerLetters) : LowerLetters[k] = c
                THEN UpperLetters[CHOOSE k \in 1..Len(LowerLetters) : LowerLetters[k] = c]
                ELSE c

\* str.upper
Upper(s) == [k \in 1..Len(s) |-> UpperChar(s[k])]

\* faulty variant: the level is looked up as given, without str.upper
ResolveAsGiven(level) ==
    CASE level = BLOCK_SOME -> BLOCK_ONLY_HIGH
      [] level = BLOCK_MOST -> BLOCK_LOW_AND_ABOVE
      [] level = BLOCK_FEW  -> BLOCK_ONLY_HIGH
      [] level = BLOCK_NONE -> BLOCK_NONE
      [] OTHER              -> level
\* ImageGenerator._resolve_safety_threshold: mapping.get(level.upper(), level.upper())
_resolve_safety_threshold(level) ==
    LET up == Upper(level)
    IN  CASE up = BLOCK_SOME -> BLOCK_ONLY_HIGH
          [] up = BLOCK_MOST -> BLOCK_LOW_AND_ABOVE
          [] up = BLOCK_FEW  -> BLOCK_ONLY_HIGH
          [] up = BLOCK_NONE -> BLOCK_NONE
          [] OTHER           -> up

(***************************************************************************)
(* utils.sanitize_filename is not among the sources.  It is modelled from  *)
(* the specification: a deterministic, pure function giving a filesystem-  *)
(* safe base filename, which carries the default extension.                *)
(***************************************************************************)
SafeChars == {LowerLetters[k] : k \in 1..Len(LowerLetters)}
                 \cup {UpperLetters[k] : k \in 1..Len(UpperLetters)}
                 \cup {Digits[k] : k \in 1..Len(Digits)}
                 \cup {"_", "-"}

sanitize_filename(text) ==
    [k \in 1..Len(text) |-> IF text[k] \in SafeChars THEN text[k] ELSE "_"]
        \o DefaultExt

(***************************************************************************)
(* The generator instance, the client it memoizes, and one generate call.  *)
(***************************************************************************)
VARIABLES
    api_key, project_id, location, model_name,  \* fields set by __init__
    environ,            \* os.environ entries written by __init__
    _client,            \* the memoized client, NoClient until one is built
    ctorCalls,          \* history: invocations of genai.Client so far
    built,              \* history: ids of the clients genai.Client returned
    lastAccess,         \* history: outcome of the latest read of generator.client
    accesses,           \* direct reads of generator.client so far
    calls,              \* generate calls so far
    dir_exists,         \* the output directory exists on disk
    pc,                 \* position of the generate call
    args,               \* arguments of the generate call
    final_prompt, contents, saved_files, valid_threshold, i,
    response,           \* response.parts of the current iteration
    p,                  \* 1-based position in response.parts
    exc,                \* the exception generate raised, NoExc if none
    requests,           \* history: generate_content calls of this generate call
    hist,               \* history: outcome of each finished loop iteration
    writes,             \* history: img.save calls that succeeded in this call
    cli_pc,             \* position of the command-line process (cli.main)
    runs,               \* command-line processes started so far
    invocation,         \* what the current process was started with
    exit_status,        \* exit status of the current process, -1 while it runs
    consulted,          \* history: the sources get_project_id looked at
    generators,         \* history: ImageGenerator instances this process built
    config_file         \* the per-user configuration file on disk

cliVars == <<cli_pc, runs, invocation, exit_status, consulted, generators,
             config_file>>
genVars == <<api_key, project_id, location, model_name, environ>>
clientVars == <<_client, ctorCalls, built, lastAccess>>
callVars == <<pc, args, final_prompt, contents, saved_files, valid_threshold, i,
              response, p, exc, requests, hist, writes>>
vars == <<genVars, clientVars, accesses, calls, dir_exists, callVars, cliVars>>

NoClient == [id |-> 0, vertexai |-> FALSE, api_key |-> None, project |-> None,
             location |-> None]
NoExc == [type |-> "none", iter |-> -1]
NoSeed == [given |-> FALSE, value |-> 0]

(***************************************************************************)
(* The client property.                                                    *)
(***************************************************************************)
\* faulty variant: the memoized client is ignored
NeedsConstructionAlways(cl) == TRUE
\* `if not self._client`
NeedsConstruction(cl) == cl = NoClient

\* faulty variant: a project id takes precedence over the api key
SelectStudioUnlessProject(key, proj) == Truthy(key) /\ ~Truthy(proj)
\* `if self.api_key` decides the mode; the project id is looked at only after
SelectStudio(key, proj) == Truthy(key)

\* the keyword arguments of the two genai.Client calls
StudioKwargs == [vertexai |-> FALSE, api_key |-> api_key, project |-> None,
                 location |-> None]
CloudKwargs == [vertexai |-> TRUE, api_key |-> None, project |-> project_id,
                location |-> location]

\* Does this read of the property invoke genai.Client?
InvokesCtor(cl) ==
    NeedsConstruction(cl) /\ (SelectStudio(api_key, project_id) \/ Truthy(project_id))

\* One read of generator.client.  cl is self._client, n the number of earlier
\* genai.Client invocations (the new client's identity is n + 1), ok whether
\* genai.Client returns (it may raise instead).  Gives the new self._client and
\* the exception the read raises, if any.
client(cl, n, ok) ==
    IF ~NeedsConstruction(cl)
    THEN [client |-> cl, raised |-> "none"]
    ELSE IF SelectStudio(api_key, project_id)
    THEN IF ok THEN [client |-> [id |-> n + 1] @@ StudioKwargs, raised |-> "none"]
               ELSE [client |-> cl, raised |-> "ClientError"]
    ELSE IF ~Truthy(project_id)
    THEN [client |-> cl, raised |-> "ValueError"]
    ELSE IF ok THEN [client |-> [id |-> n + 1] @@ CloudKwargs, raised |-> "none"]
               ELSE [client |-> cl, raised |-> "ClientError"]

\* The outcomes genai.Client can have in this read
CtorOutcomes(cl) == IF InvokesCtor(cl) THEN {TRUE, FALSE} ELSE {TRUE}

\* The effect of one read on the instance and on the history
ReadClient(ok) ==
    LET r == client(_client, ctorCalls, ok)
    IN  /\ _client' = r.client
        /\ ctorCalls' = IF InvokesCtor(_client) THEN ctorCalls + 1 ELSE ctorCalls
        /\ built' = IF InvokesCtor(_client) /\ r.raised = "none"
                    THEN Append(built, r.client.id) ELSE built
        /\ lastAccess' = [raised |-> r.raised, id |-> r.client.id]

\* A caller reads generator.client outside generate
ClientAccess(ok) ==
    /\ pc \in {"idle", "returned", "raised"}
    /\ accesses < MaxAccess
    /\ ok \in CtorOutcomes(_client)
    /\ ReadClient(ok)
    /\ accesses' = accesses + 1
    /\ UNCHANGED <<cliVars, genVars, calls, dir_exists, callVars>>

(***************************************************************************)
(* generate: prompt augmentation and content assembly.                     *)
(* The clauses appended to the prompt are never inspected by the program;  *)
(* each is kept as one element of the string.                              *)
(***************************************************************************)
ExcludeOpen == <<" \n(Exclude: ">>
ExcludeClose == <<")">>
NoPeopleClause == <<" \n(Do not include people in this image.)">>
AdultsClause == <<" \n(If people are included, they must be adults.)">>

AugmentPrompt(prompt, negative_prompt, person_generation) ==
    LET withNeg == IF Truthy(negative_prompt)
                   THEN prompt \o ExcludeOpen \o negative_prompt \o ExcludeClose
                   ELSE prompt
    IN  IF person_generation = "dont_allow" THEN withNeg \o NoPeopleClause
        ELSE IF person_generation = "allow_adult" THEN withNeg \o AdultsClause
        ELSE withNeg

\* faulty variant: a reference image that does not load ends the loop
LoadedStopAtBad(ref, rest) == IF ref.exists /\ ref.opens
                              THEN <<[kind |-> "image", val |-> ref.path]>> \o rest
                              ELSE << >>
\* The images appended to contents from one reference path on: none for it when
\* the path does not exist (continue) or Image.open raises (logged), else the
\* image; rest are the images of the paths after it
Loaded(ref, rest) == IF ref.exists /\ ref.opens
                     THEN <<[kind |-> "image", val |-> ref.path]>> \o rest
                     ELSE rest

\* the loop over reference_images
RECURSIVE LoadReferences(_)
LoadReferences(refs) ==
    IF refs = << >> THEN << >>
    ELSE Loaded(Head(refs), LoadReferences(Tail(refs)))

AssembleContents(text, reference_images) ==
    <<[kind |-> "text", val |-> text]>> \o LoadReferences(reference_images)

\* faulty variant: a given seed is put into the config
ConfigWithSeed(aspect_ratio, image_size, threshold, seed) ==
    LET config ==
            [response_modalities |-> <<"TEXT", "IMAGE">>,
             image_config |-> [aspect_ratio |-> aspect_ratio,
                               image_size |-> image_size],
             safety_settings |->
                <<[category |-> "HARM_CATEGORY_HARASSMENT", threshold |-> threshold],
                  [category |-> "HARM_CATEGORY_HATE_SPEECH", threshold |-> threshold],
                  [category |-> "HARM_CATEGORY_SEXUALLY_EXPLICIT",
                   threshold |-> threshold],
                  [category |-> "HARM_CATEGORY_DANGEROUS_CONTENT",
                   threshold |-> threshold]>>]
    IN  IF seed.given THEN config @@ [seed |-> seed.value] ELSE config
\* the config dict built in every iteration; seed is accepted and not used
Config(aspect_ratio, image_size, threshold, seed) ==
    [response_modalities |-> <<"TEXT", "IMAGE">>,
     image_config |-> [aspect_ratio |-> aspect_ratio, image_size |-> image_size],
     safety_settings |->
        <<[category |-> "HARM_CATEGORY_HARASSMENT", threshold |-> threshold],
          [category |-> "HARM_CATEGORY_HATE_SPEECH", threshold |-> threshold],
          [category |-> "HARM_CATEGORY_SEXUALLY_EXPLICIT", threshold |-> threshold],
          [category |-> "HARM_CATEGORY_DANGEROUS_CONTENT", threshold |-> threshold]>>]

(***************************************************************************)
(* generate: the filename of one saved image.                              *)
(***************************************************************************)
\* `if filename: ... else: sanitize_filename(prompt)`: the original prompt
BaseName(prompt, final, filename) ==
    IF Truthy(filename) THEN filename ELSE sanitize_filename(prompt)

\* faulty variant: the number of parts is not looked at
UniqueifyOnCountOnly(count, nparts) == count > 1
\* `if count > 1 or len(response.parts) > 1`
Uniqueify(count, nparts) == count > 1 \/ nparts > 1

\* faulty variant: the index is the number of images saved so far
FileIndexWritten(iter, nsaved) == nsaved
\* the index written into the name: the loop variable i
FileIndex(iter, nsaved) == iter

\* `Path(...).suffix or ".png"`
SuffixOrDefault(name) == IF PathSuffix(name) = Empty THEN DefaultExt
                         ELSE PathSuffix(name)

\* sanitize_filename("img")[-6:]
ShortSalt == LastChars(sanitize_filename(ImgToken), 6)

CurrentFilename(prompt, final, filename, count, nparts, iter, nsaved) ==
    LET base == BaseName(prompt, final, filename)
        idx  == IntToStr(FileIndex(iter, nsaved))
    IN  IF Uniqueify(count, nparts)
        THEN IF Truthy(filename)
             THEN PathStem(filename) \o <<"_">> \o idx \o SuffixOrDefault(filename)
             ELSE PathStem(base) \o <<"_">> \o idx \o <<"_">> \o ShortSalt
                      \o SuffixOrDefault(base)
        ELSE base

(***************************************************************************)
(* Inputs.                                                                 *)
(***************************************************************************)
ApiKeys == {None, Empty, <<"k">>}
ProjectIds == {None, <<"p">>}

OutDir == <<"o", "u", "t">>
PromptAB == <<"a", " ", "b">>
PromptC == <<"c">>
NegFog == <<"f", "o", "g">>
NameR == <<"r">>                                      \* override without extension
NameRJpg == <<"r", ".", "j", "p", "g">>               \* override "r.jpg"
block_some == <<"b", "l", "o", "c", "k", "_", "s", "o", "m", "e">>

RefOk(n) == [path |-> <<"i", n>>, exists |-> TRUE, opens |-> TRUE]
RefMissing(n) == [path |-> <<"i", n>>, exists |-> FALSE, opens |-> FALSE]
RefCorrupt(n) == [path |-> <<"i", n>>, exists |-> TRUE, opens |-> FALSE]

RefLists == {<< >>,
             <<RefOk("1")>>,
             <<RefMissing("1")>>,
             <<RefMissing("1"), RefOk("2")>>,
             <<RefOk("1"), RefCorrupt("2"), RefOk("3")>>,
             <<RefCorrupt("1"), RefMissing("2")>>}

Counts == 0..MaxCount

BaseRequest ==
    [prompt |-> PromptAB, reference_images |-> << >>, count |-> 1,
     aspect_ratio |-> "1:1", image_size |-> "1K", negative_prompt |-> None,
     person_generation |-> "allow_all", safety_filter_level |-> BLOCK_ONLY_HIGH,
     add_watermark |-> TRUE, seed |-> NoSeed, output_dir |-> OutDir,
     filename |-> None]

\* The calls of generate the model makes: every count with the defaults; the
\* arguments that decide the filename; the arguments that decide the contents;
\* the arguments that decide the config.
Requests ==
    {[BaseRequest EXCEPT !.count = c] : c \in Counts}
    \cup {[BaseRequest EXCEPT !.count = c, !.filename = f] :
            c \in 1..2, f \in {NameR, NameRJpg}}
    \cup {[BaseRequest EXCEPT !.count = c, !.negative_prompt = NegFog] : c \in 1..2}
    \cup {[BaseRequest EXCEPT !.count = 2, !.reference_images = r] :
            r \in RefLists \ {<< >>}}
    \cup {[BaseRequest EXCEPT !.count = 2, !.prompt = PromptC,
                              !.reference_images = <<RefMissing("1"), RefOk("2")>>,
                              !.negative_prompt = n, !.person_generation = g] :
            n \in {None, NegFog}, g \in {"dont_allow", "allow_adult"}}
    \cup {[BaseRequest EXCEPT !.count = 2, !.safety_filter_level = block_some,
                              !.seed = [given |-> TRUE, value |-> 7]],
          [BaseRequest EXCEPT !.count = 2, !.safety_filter_level = BLOCK_MOST]}

\* a part: whether part.text is set, and whether the part carries an image
\* (`part.inline_data or part.as_image()`)
TextPart == [text |-> TRUE, image |-> FALSE]
ImagePart == [text |-> FALSE, image |-> TRUE]
TextImagePart == [text |-> TRUE, image |-> TRUE]

\* response.parts of the responses the model lets generate_content return
Responses == {<< >>, <<TextPart>>, <<ImagePart>>, <<TextPart, ImagePart>>,
              <<TextImagePart, ImagePart>>}

\* What generate_content can do: raise, return a response whose parts is None,
\* or return a response with parts
Outcomes ==
    {[kind |-> "error", parts |-> << >>], [kind |-> "noparts", parts |-> << >>]}
    \cup {[kind |-> "parts", parts |-> ps] : ps \in Responses}

(***************************************************************************)
(* Init: the instance right after __init__.                                *)
(***************************************************************************)
(* What __init__ writes to os.environ, and the state of the command line   *)
(* (src/src/lumina/cli.py) while the instance is used as a library.        *)
(***************************************************************************)
\* the configuration file: absent, or present with a content and a mode
AbsentFile == [exists |-> FALSE, content |-> "", mode |-> ""]

NoInvocation == [command |-> "none"]

\* the os.environ entries __init__ writes (lines 28-32): only without an api
\* key and with a project id
EnvironOf(key, proj, loc) ==
    IF ~Truthy(key) /\ Truthy(proj)
    THEN [GOOGLE_CLOUD_PROJECT |-> proj,
          GOOGLE_CLOUD_LOCATION |-> loc,
          GOOGLE_GENAI_USE_VERTEXAI |-> <<"T", "r", "u", "e">>]
    ELSE [GOOGLE_CLOUD_PROJECT |-> None,
          GOOGLE_CLOUD_LOCATION |-> None,
          GOOGLE_GENAI_USE_VERTEXAI |-> None]

\* the instance is used as a library: there is no command-line process
NoProcess ==
    /\ cli_pc = "none"
    /\ runs = 0
    /\ invocation = NoInvocation
    /\ exit_status = -1
    /\ consulted = << >>
    /\ generators = 1
    /\ config_file = AbsentFile

(***************************************************************************)
Init ==
    /\ api_key \in ApiKeys
    /\ project_id \in ProjectIds
    /\ location = UsCentral1
    /\ model_name = <<"m">>
    /\ environ = EnvironOf(api_key, project_id, location)
    /\ _client = NoClient
    /\ ctorCalls = 0
    /\ built = << >>
    /\ lastAccess = [raised |-> "none", id |-> 0]
    /\ accesses = 0
    /\ calls = 0
    /\ dir_exists = FALSE
    /\ pc = "idle"
    /\ args = BaseRequest
    /\ final_prompt = Empty
    /\ contents = << >>
    /\ saved_files = << >>
    /\ valid_threshold = Empty
    /\ i = 0
    /\ response = << >>
    /\ p = 0
    /\ exc = NoExc
    /\ requests = << >>
    /\ hist = << >>
    /\ writes = << >>
    /\ NoProcess

(***************************************************************************)
(* generate, lines 83-113: the call starts, the prompt is augmented and    *)
(* the contents assembled.                                                 *)
(***************************************************************************)
\* lines 83-113 of one call: the per-call state after the prompt is augmented
\* and the contents assembled
BeginGenerate(req) ==
    /\ args' = req
    /\ final_prompt' = AugmentPrompt(req.prompt, req.negative_prompt,
                                     req.person_generation)
    /\ contents' = AssembleContents(final_prompt', req.reference_images)
    /\ pc' = "ensure"
    /\ saved_files' = << >>
    /\ valid_threshold' = Empty
    /\ i' = 0
    /\ response' = << >>
    /\ p' = 0
    /\ exc' = NoExc
    /\ requests' = << >>
    /\ hist' = << >>
    /\ writes' = << >>

\* a caller of the library calls generate on the instance
Generate(req) ==
    /\ pc \in {"idle", "returned", "raised"}
    /\ calls < MaxCalls
    /\ calls' = calls + 1
    /\ BeginGenerate(req)
    /\ UNCHANGED <<cliVars, genVars, clientVars, accesses, dir_exists>>

\* faulty variant: one iteration too many
LoopOrReturnInclusive(n, count) == IF n <= count THEN "loop" ELSE "returned"
\* `for i in range(count)`: where generate goes once i has the value n
LoopOrReturn(n, count) == IF n < count THEN "loop" ELSE "returned"

(***************************************************************************)
(* utils.ensure_directory is not among the sources.  From the              *)
(* specification: it creates the directory, missing parents included, and  *)
(* does nothing when the directory exists.  Whether the directory exists   *)
(* after a call that did not raise:                                        *)
(***************************************************************************)
ensure_directory(exists) == TRUE

(***************************************************************************)
(* generate, lines 115-123: the output directory is ensured (the call may  *)
(* raise, which ends generate), the saved list is created and the safety   *)
(* threshold resolved.                                                     *)
(***************************************************************************)
\* faulty variant: a failure of ensure_directory is swallowed
AfterEnsureSwallowed(ok, count) == LoopOrReturn(0, count)
\* where generate goes after line 116: an exception of ensure_directory is not
\* caught and ends the call, otherwise the loop is entered (or skipped)
AfterEnsure(ok, count) == IF ok THEN LoopOrReturn(0, count) ELSE "raised"

EnsureDirectory(ok) ==
    /\ pc = "ensure"
    /\ pc' = AfterEnsure(ok, args.count)
    /\ exc' = IF pc' = "raised" THEN [type |-> "OSError", iter |-> -1] ELSE NoExc
    /\ IF ok
       THEN /\ dir_exists' = ensure_directory(dir_exists)
            /\ valid_threshold' = _resolve_safety_threshold(args.safety_filter_level)
       ELSE /\ dir_exists' = dir_exists
            /\ valid_threshold' = valid_threshold
    /\ UNCHANGED <<cliVars, genVars, clientVars, accesses, calls, args, final_prompt,
                   contents, saved_files, i, response, p, requests, hist, writes>>

(***************************************************************************)
(* generate, lines 203-213: the except block of one loop iteration.        *)
(***************************************************************************)
\* faulty variants: one of the two conditions dropped
ShouldRaiseWhenEmpty(iter, count, saved) == saved = << >>
ShouldRaiseOnLast(iter, count, saved) == iter = count - 1
\* `if i == count - 1 and not saved_files: raise`
ShouldRaise(iter, count, saved) == iter = count - 1 /\ saved = << >>

\* The iteration i ends in the except block with exception type t, the saved
\* list being saved at that moment.
Except(t, saved) ==
    /\ hist' = Append(hist, [ok |-> FALSE, type |-> t, nsaved |-> Len(saved)])
    /\ IF ShouldRaise(i, args.count, saved)
       THEN /\ pc' = "raised"
            /\ exc' = [type |-> t, iter |-> i]
            /\ i' = i
       ELSE /\ pc' = LoopOrReturn(i + 1, args.count)
            /\ exc' = NoExc
            /\ i' = i + 1

(***************************************************************************)
(* generate, lines 126-163: one iteration builds the config, reads         *)
(* self.client and calls generate_content.                                 *)
(***************************************************************************)
Invoke(ok, out) ==
    /\ pc = "loop"
    /\ ok \in CtorOutcomes(_client)
    /\ ReadClient(ok)
    /\ LET r == client(_client, ctorCalls, ok)
           request == [iter |-> i, client |-> r.client.id, model |-> model_name,
                       contents |-> contents,
                       config |-> Config(args.aspect_ratio, args.image_size,
                                         valid_threshold, args.seed)]
       IN  IF r.raised # "none"
           THEN /\ out.kind = "error"
                /\ Except(r.raised, saved_files)
                /\ UNCHANGED <<requests, response, p>>
           ELSE /\ requests' = Append(requests, request)
                /\ IF out.kind = "error"
                   THEN /\ Except("RequestError", saved_files)
                        /\ UNCHANGED <<response, p>>
                   ELSE IF out.kind = "noparts"
                   THEN /\ Except("TypeError", saved_files)
                        /\ UNCHANGED <<response, p>>
                   ELSE /\ response' = out.parts
                        /\ p' = 1
                        /\ pc' = "parts"
                        /\ UNCHANGED <<i, exc, hist>>
    /\ UNCHANGED <<cliVars, genVars, accesses, calls, dir_exists, args, final_prompt,
                   contents, saved_files, valid_threshold, writes>>

(***************************************************************************)
(* generate, lines 166-201: one part of the response.  A part with image   *)
(* data is named and saved; img.save may raise.                            *)
(***************************************************************************)
\* faulty variant: the new path is put in front of the list
AppendSavedInFront(saved, path) == <<path>> \o saved
\* line 200: saved_files.append(output_path)
AppendSaved(saved, path) == Append(saved, path)

ProcessPart(saved_ok) ==
    /\ pc = "parts"
    /\ p <= Len(response)
    /\ LET part == response[p]
           current_filename ==
               CurrentFilename(args.prompt, final_prompt, args.filename,
                               args.count, Len(response), i, Len(saved_files))
           output_path == JoinPath(args.output_dir, current_filename)
       IN  IF ~part.image
           THEN /\ saved_ok
                /\ p' = p + 1
                /\ UNCHANGED <<pc, i, exc, hist, saved_files, writes>>
           ELSE IF saved_ok
           THEN /\ saved_files' = AppendSaved(saved_files, output_path)
                /\ writes' = Append(writes, [iter |-> i, part |-> p,
                                             nparts |-> Len(response),
                                             name |-> current_filename,
                                             path |-> output_path])
                /\ p' = p + 1
                /\ UNCHANGED <<pc, i, exc, hist>>
           ELSE /\ Except("SaveError", saved_files)
                /\ UNCHANGED <<p, saved_files, writes>>
    /\ UNCHANGED <<cliVars, genVars, clientVars, accesses, calls, dir_exists, args,
                   final_prompt, contents, valid_threshold, response, requests>>

\* the parts are exhausted: the iteration ends without an exception
EndIteration ==
    /\ pc = "parts"
    /\ p > Len(response)
    /\ hist' = Append(hist, [ok |-> TRUE, type |-> "none",
                             nsaved |-> Len(saved_files)])
    /\ i' = i + 1
    /\ pc' = LoopOrReturn(i + 1, args.count)
    /\ UNCHANGED <<cliVars, genVars, clientVars, accesses, calls, dir_exists, args,
                   final_prompt, contents, saved_files, valid_threshold, response,
                   p, exc, requests, writes>>

Next ==
    \/ \E ok \in BOOLEAN : ClientAccess(ok)
    \/ \E req \in Requests : Generate(req)
    \/ \E ok \in BOOLEAN : EnsureDirectory(ok)
    \/ \E ok \in BOOLEAN, out \in Outcomes : Invoke(ok, out)
    \/ \E saved_ok \in BOOLEAN : ProcessPart(saved_ok)
    \/ EndIteration

Spec == Init /\ [][Next]_vars

(***************************************************************************)
(* _resolve_safety_threshold on its own: the generator stands at line 120  *)
(* of generate with some safety_filter_level, and the one step resolves    *)
(* the threshold.                                                          *)
(***************************************************************************)
\* str.lower on one character
LowerChar(c) == IF \E k \in 1..Len(UpperLetters) : UpperLetters[k] = c
                THEN LowerLetters[CHOOSE k \in 1..Len(UpperLetters) : UpperLetters[k] = c]
                ELSE c

\* s in every letter case: the characters at the positions in L lower-cased
CaseVariants(s) ==
    {[k \in 1..Len(s) |-> IF k \in L THEN LowerChar(s[k]) ELSE s[k]] :
        L \in SUBSET (1..Len(s))}

\* levels outside the mapping table
OtherLevels ==
    {Empty, <<"o", "f", "f">>, <<"O", "F", "F">>, <<"B", "l", "o", "c", "k">>,
     <<"b", "l", "o", "c", "k", " ", "s", "o", "m", "e">>,
     <<"b", "l", "o", "c", "k", "_", "s", "o", "m", "e", "x">>,
     <<"x", "B", "L", "O", "C", "K", "_", "F", "E", "W">>,
     <<"b", "l", "o", "c", "k", "_", "n", "o", "n">>,
     <<"h", "1", "-", "Z", "z">>}
        \cup CaseVariants(<<"O", "N", "L", "Y", "_", "H", "I">>)

Levels ==
    CaseVariants(BLOCK_SOME) \cup CaseVariants(BLOCK_MOST)
        \cup CaseVariants(BLOCK_FEW) \cup CaseVariants(BLOCK_NONE)
        \cup {BLOCK_ONLY_HIGH, BLOCK_LOW_AND_ABOVE} \cup OtherLevels

InitThreshold ==
    /\ api_key = <<"k">>
    /\ project_id = None
    /\ location = UsCentral1
    /\ model_name = <<"m">>
    /\ environ = [GOOGLE_CLOUD_PROJECT |-> None, GOOGLE_CLOUD_LOCATION |-> None,
                  GOOGLE_GENAI_USE_VERTEXAI |-> None]
    /\ _client = NoClient
    /\ ctorCalls = 0
    /\ built = << >>
    /\ lastAccess = [raised |-> "none", id |-> 0]
    /\ accesses = 0
    /\ calls = 1
    /\ dir_exists = TRUE
    /\ pc = "threshold"
    /\ \E level \in Levels : args = [BaseRequest EXCEPT !.safety_filter_level = level]
    /\ final_prompt = PromptAB
    /\ contents = AssembleContents(PromptAB, << >>)
    /\ saved_files = << >>
    /\ valid_threshold = Empty
    /\ i = 0
    /\ response = << >>
    /\ p = 0
    /\ exc = NoExc
    /\ requests = << >>
    /\ hist = << >>
    /\ writes = << >>
    /\ NoProcess

\* line 120: valid_threshold = self._resolve_safety_threshold(safety_filter_level)
ResolveThreshold ==
    /\ pc = "threshold"
    /\ valid_threshold' = _resolve_safety_threshold(args.safety_filter_level)
    /\ pc' = "resolved"
    /\ UNCHANGED <<cliVars, genVars, clientVars, accesses, calls, dir_exists, args,
                   final_prompt, contents, saved_files, i, response, p, exc,
                   requests, hist, writes>>

NextThreshold == ResolveThreshold

SpecThreshold == InitThreshold /\ [][NextThreshold]_vars

(***************************************************************************)
(* The command line, src/src/lumina/cli.py.  One process is one run of     *)
(* main: argument parsing, then init, or prompt and authentication         *)
(* resolution, the construction of an ImageGenerator and one call of       *)
(* generate, whose steps are the ones above.  The configuration file and   *)
(* the output directory outlive the process.                               *)
(***************************************************************************)
MaxRuns == 2        \* command-line processes run one after the other

\* Python's `a or b` on optional strings
Or(a, b) == IF Truthy(a) THEN a ELSE b

Whitespace == {" ", "\n", "\t"}

\* str.strip
RECURSIVE Strip(_)
Strip(s) == IF s = << >> THEN s
            ELSE IF Head(s) \in Whitespace THEN Strip(Tail(s))
            ELSE IF s[Len(s)] \in Whitespace THEN Strip(SubSeq(s, 1, Len(s) - 1))
            ELSE s

\* lines 220-226: the prompt is --prompt, or else stdin, stripped, when stdin
\* is not a terminal
ResolvePrompt(prompt_arg, stdin) ==
    IF Truthy(prompt_arg) THEN prompt_arg
    ELSE IF ~stdin.isatty THEN Strip(stdin.text)
    ELSE prompt_arg

\* google.auth.default(): raises, or returns a project or None
AdcRaises == [raises |-> TRUE, project |-> None]
AdcProject(proj) == [raises |-> FALSE, project |-> proj]

\* faulty variant: the configured project id wins over the flag
get_project_id_settings_first(project_id_arg, settings_project_id, adc) ==
    IF Truthy(settings_project_id)
    THEN [value |-> settings_project_id, consulted |-> <<"flag", "settings">>]
    ELSE IF Truthy(project_id_arg)
    THEN [value |-> project_id_arg, consulted |-> <<"flag">>]
    ELSE [value |-> IF ~adc.raises /\ Truthy(adc.project) THEN adc.project ELSE None,
          consulted |-> <<"flag", "settings", "adc">>]
\* get_project_id, lines 19-34: the value returned and the sources looked at
get_project_id(project_id_arg, settings_project_id, adc) ==
    IF Truthy(project_id_arg)
    THEN [value |-> project_id_arg, consulted |-> <<"flag">>]
    ELSE IF Truthy(settings_project_id)
    THEN [value |-> settings_project_id, consulted |-> <<"flag", "settings">>]
    ELSE [value |-> IF ~adc.raises /\ Truthy(adc.project) THEN adc.project ELSE None,
          consulted |-> <<"flag", "settings", "adc">>]

\* line 249: `if not resolved_api_key and not resolved_project_id`
MissingAuth(resolved_api_key, resolved_project_id) ==
    ~Truthy(resolved_api_key) /\ ~Truthy(resolved_project_id)

\* ", ".join(items)
RECURSIVE JoinComma(_)
JoinComma(items) ==
    IF items = << >> THEN Empty
    ELSE IF Len(items) = 1 THEN items[1]
    ELSE items[1] \o <<", ">> \o JoinComma(Tail(items))

\* lines 258-264: styles and variations are appended to the prompt
FullPrompt(prompt, style, variation) ==
    LET styled == IF style # << >>
                  THEN prompt \o <<", in the style of ">> \o JoinComma(style)
                  ELSE prompt
    IN  IF variation # << >>
        THEN styled \o <<", with variations in ">> \o JoinComma(variation)
        ELSE styled

\* run_init, lines 37-76.  The file the default configuration is written to:
DefaultFile == [exists |-> TRUE, content |-> "default_config", mode |-> "0o600"]

\* faulty variant: the file is written whether or not it exists
ConfigExistsNever(file) == FALSE
\* line 45: `if env_file.exists()`
ConfigExists(file) == file.exists

\* what the file system can do to run_init: nothing, or mkdir, write_text
\* (before or after the file was created) or chmod raises
InitFaults == {"none", "mkdir", "open", "write", "chmod"}

\* run_init on the file: the file afterwards and the exit status (0 when
\* run_init returns, 1 from sys.exit(1) in the except block)
run_init(file, fault) ==
    IF ConfigExists(file) THEN [file |-> file, status |-> 0]
    ELSE CASE fault = "none"  -> [file |-> DefaultFile, status |-> 0]
           [] fault = "mkdir" -> [file |-> file, status |-> 1]
           [] fault = "open"  -> [file |-> file, status |-> 1]
           [] fault = "write" ->
                [file |-> [exists |-> TRUE, content |-> "", mode |-> "umask"],
                 status |-> 1]
           [] fault = "chmod" ->
                [file |-> [DefaultFile EXCEPT !.mode = "umask"], status |-> 1]

(***************************************************************************)
(* What a process is started with: the parsed arguments, stdin, the        *)
(* settings object and what google.auth.default() will do.                 *)
(***************************************************************************)
Tty == [isatty |-> TRUE, text |-> Empty]
Piped(text) == [isatty |-> FALSE, text |-> text]

KeyFlag == <<"k">>
KeySetting == <<"s">>
ProjectFlag == <<"p">>
ProjectSetting == <<"q">>
ProjectAdc == <<"d">>

BaseInvocation ==
    [command |-> "generate", prompt |-> PromptAB, stdin |-> Tty, count |-> 1,
     style |-> << >>, variation |-> << >>,
     api_key |-> KeyFlag, project_id |-> None,
     settings_api_key |-> None, settings_project_id |-> None,
     adc |-> AdcProject(None), init_fault |-> "none"]

\* --count is any integer (type=int, default 1)
CountFlags == (0 - 1)..MaxCount

Invocations ==
    {[BaseInvocation EXCEPT !.api_key = k, !.settings_api_key = sk,
                            !.project_id = pf, !.settings_project_id = ps,
                            !.adc = a] :
        k \in {None, KeyFlag}, sk \in {None, Empty, KeySetting},
        pf \in {None, ProjectFlag}, ps \in {None, ProjectSetting},
        a \in {AdcRaises, AdcProject(None), AdcProject(ProjectAdc)}}
    \cup {[BaseInvocation EXCEPT !.prompt = pr, !.stdin = st] :
            pr \in {None, Empty, PromptAB},
            st \in {Tty, Piped(Empty), Piped(<<" ", "\n">>),
                    Piped(<<" ", "c", "\n">>)}}
    \cup {[BaseInvocation EXCEPT !.style = <<<<"S">>, <<"T">>>>,
                                !.variation = <<<<"V">>>>]}
    \cup {[BaseInvocation EXCEPT !.count = c] : c \in CountFlags}
    \cup {[BaseInvocation EXCEPT !.command = "init", !.init_fault = f] :
            f \in InitFaults}

\* the configuration file as a user may have edited it
EditedFile == [exists |-> TRUE, content |-> "edited", mode |-> "0o644"]

\* lines 284-297: the call of generate; everything not given on the command
\* line of the model is the default of the settings
CliRequest(inv, prompt) ==
    [BaseRequest EXCEPT !.prompt = FullPrompt(prompt, inv.style, inv.variation),
                        !.count = inv.count]

InitCli ==
    /\ api_key = None
    /\ project_id = None
    /\ location = UsCentral1
    /\ model_name = <<"m">>
    /\ environ = EnvironOf(None, None, UsCentral1)
    /\ _client = NoClient
    /\ ctorCalls = 0
    /\ built = << >>
    /\ lastAccess = [raised |-> "none", id |-> 0]
    /\ accesses = 0
    /\ calls = 0
    /\ dir_exists = FALSE
    /\ pc = "idle"
    /\ args = BaseRequest
    /\ final_prompt = Empty
    /\ contents = << >>
    /\ saved_files = << >>
    /\ valid_threshold = Empty
    /\ i = 0
    /\ response = << >>
    /\ p = 0
    /\ exc = NoExc
    /\ requests = << >>
    /\ hist = << >>
    /\ writes = << >>
    /\ cli_pc = "shell"
    /\ runs = 0
    /\ invocation = NoInvocation
    /\ exit_status = -1
    /\ consulted = << >>
    /\ generators = 0
    /\ config_file \in {AbsentFile, EditedFile}

\* the process ends before any ImageGenerator is built: nothing of the
\* library is touched
NoGenerator ==
    /\ api_key' = None
    /\ project_id' = None
    /\ environ' = EnvironOf(None, None, UsCentral1)
    /\ generators' = 0
    /\ calls' = 0
    /\ pc' = "idle"
    /\ args' = BaseRequest
    /\ final_prompt' = Empty
    /\ contents' = << >>
    /\ saved_files' = << >>
    /\ valid_threshold' = Empty
    /\ i' = 0
    /\ response' = << >>
    /\ p' = 0
    /\ exc' = NoExc
    /\ requests' = << >>
    /\ hist' = << >>
    /\ writes' = << >>

\* main, lines 192-297: a process is started and runs until it exits or
\* stands in generate.
main(inv) ==
    /\ cli_pc \in {"shell", "exited"}
    /\ runs < MaxRuns
    /\ runs' = runs + 1
    /\ invocation' = inv
    /\ _client' = NoClient
    /\ ctorCalls' = 0
    /\ built' = << >>
    /\ lastAccess' = [raised |-> "none", id |-> 0]
    /\ accesses' = 0
    /\ UNCHANGED <<location, model_name, dir_exists>>
    /\ IF inv.command = "init"
       THEN LET r == run_init(config_file, inv.init_fault)
            IN  /\ config_file' = r.file
                /\ exit_status' = r.status
                /\ cli_pc' = "exited"
                /\ consulted' = << >>
                /\ NoGenerator
       ELSE LET prompt == ResolvePrompt(inv.prompt, inv.stdin)
                resolved_api_key == Or(inv.api_key, inv.settings_api_key)
                resolved == get_project_id(inv.project_id, inv.settings_project_id,
                                           inv.adc)
                resolved_project_id == resolved.value
            IN  /\ config_file' = config_file
                /\ IF ~Truthy(prompt)
                   THEN /\ exit_status' = 0
                        /\ cli_pc' = "exited"
                        /\ consulted' = << >>
                        /\ NoGenerator
                   ELSE IF MissingAuth(resolved_api_key, resolved_project_id)
                   THEN /\ exit_status' = 1
                        /\ cli_pc' = "exited"
                        /\ consulted' = resolved.consulted
                        /\ NoGenerator
                   ELSE /\ exit_status' = -1
                        /\ cli_pc' = "generate"
                        /\ consulted' = resolved.consulted
                        /\ api_key' = resolved_api_key
                        /\ project_id' = resolved_project_id
                        /\ environ' = EnvironOf(resolved_api_key, resolved_project_id,
                                                location)
                        /\ generators' = 1
                        /\ calls' = 1
                        /\ BeginGenerate(CliRequest(inv, prompt))

\* faulty variant: a generate that returned nothing counts as a failure
ExitStatusByFiles(at, saved) == IF at = "returned" /\ saved # << >> THEN 0 ELSE 1
\* lines 283-306: main returns after generate returned (status 0); an
\* exception of generate ends in sys.exit(1)
ExitStatus(at, saved) == IF at = "returned" THEN 0 ELSE 1

\* main, lines 298-306: generate has returned or raised and the process ends
Exit ==
    /\ cli_pc = "generate"
    /\ pc \in {"returned", "raised"}
    /\ exit_status' = ExitStatus(pc, saved_files)
    /\ cli_pc' = "exited"
    /\ UNCHANGED <<genVars, clientVars, accesses, calls, dir_exists, callVars,
                   runs, invocation, consulted, generators, config_file>>

NextCli ==
    \/ \E inv \in Invocations : main(inv)
    \/ \E ok \in BOOLEAN : EnsureDirectory(ok)
    \/ \E ok \in BOOLEAN, out \in Outcomes : Invoke(ok, out)
    \/ \E saved_ok \in BOOLEAN : ProcessPart(saved_ok)
    \/ EndIteration
    \/ Exit

SpecCli == InitCli /\ [][NextCli]_vars

(***************************************************************************)
(* Properties.                                                             *)
(***************************************************************************)
\* the generate call has ended after its request loop was entered
LoopEnded == pc = "returned" \/ (pc = "raised" /\ exc.type # "OSError")

\* the exception types with which a read of self.client ends an iteration
ClientErrors == {"ValueError", "ClientError"}

\* the iterations (zero-based) in which generate_content was called
RequestIters == {requests[k].iter : k \in 1..Len(requests)}

LastIterationFailed ==
    args.count >= 1 /\ Len(hist) = args.count /\ ~hist[args.count].ok

\* C2: once the loop has started, generate raises if and only if the iteration
\* that fails is the last one (index count - 1) and the saved list is empty at
\* that moment, and then it raises that iteration's exception; every other
\* failure is swallowed, all count iterations run and generate returns.
C2_RaisesIffLastFailsWithNothingSaved ==
    /\ pc = "raised" /\ exc.type # "OSError" =>
         /\ LastIterationFailed
         /\ hist[args.count].nsaved = 0
         /\ exc = [type |-> hist[args.count].type, iter |-> args.count - 1]
    /\ pc = "returned" =>
         /\ Len(hist) = args.count
         /\ ~(LastIterationFailed /\ hist[args.count].nsaved = 0)

\* C2 witness: count 2, both iterations failed, nothing saved: the first
\* failure was swallowed and the second is the exception generate raised
C2_Witness ==
    /\ pc = "raised"
    /\ args.count = 2
    /\ Len(hist) = 2
    /\ hist[1].type = "RequestError"
    /\ hist[2].type = "TypeError"
    /\ exc = [type |-> "TypeError", iter |-> 1]

\* an iteration succeeded: its request and the processing of its response
\* completed without an exception
SomeIterationSucceeded == \E j \in 1..Len(hist) : hist[j].ok
EveryIterationFailed == \A j \in 1..Len(hist) : ~hist[j].ok

\* C3 as stated: for count >= 1, generate raises if every iteration fails and
\* nothing was saved, and returns without raising if at least one iteration
\* succeeds.
C3_ReturnsIfSomeIterationSucceeded ==
    (LoopEnded /\ args.count >= 1) =>
        /\ (EveryIterationFailed /\ saved_files = << >>) => pc = "raised"
        /\ SomeIterationSucceeded => pc = "returned"

\* C3 amended: for count >= 1, generate raises if every iteration fails and
\* nothing was saved, and returns the saved list without raising if at least one
\* image was saved, even when later iterations fail; with nothing saved it
\* raises exactly when the last iteration fails, whether or not an earlier
\* iteration succeeded without saving an image.
C3_ReturnsIfSomeImageSaved ==
    (LoopEnded /\ args.count >= 1) =>
        /\ (EveryIterationFailed /\ saved_files = << >>) => pc = "raised"
        /\ saved_files # << >> => pc = "returned"
        /\ saved_files = << >> => (pc = "raised" <=> LastIterationFailed)

\* C3 witness: count 2, the first iteration saved an image, the last failed,
\* and generate returned the one saved path
C3_Witness ==
    /\ pc = "returned"
    /\ args.count = 2
    /\ Len(hist) = 2
    /\ hist[1].ok
    /\ ~hist[2].ok
    /\ Len(saved_files) = 1

\* C4: the mode of the client depends only on api_key and project_id: with an
\* api_key the client is built with (api_key, vertexai=False), a project_id being
\* given or not; with no api_key and a project_id it is built with
\* (vertexai=True, project, location); with neither, no client is ever built,
\* genai.Client is never invoked and every read of the client raises ValueError.
C4_ClientModeFromCredentials ==
    /\ _client # NoClient =>
         IF Truthy(api_key)
         THEN /\ ~_client.vertexai
              /\ _client.api_key = api_key
              /\ _client.project = None
         ELSE /\ Truthy(project_id)
              /\ _client.vertexai
              /\ _client.api_key = None
              /\ _client.project = project_id
              /\ _client.location = location
    /\ (~Truthy(api_key) /\ ~Truthy(project_id)) =>
         /\ _client = NoClient
         /\ ctorCalls = 0
         /\ (accesses > 0 \/ hist # << >>) => lastAccess.raised = "ValueError"

\* C4 witness: a generator given both an api_key and a project_id holds a
\* client built in Studio mode
C4_Witness ==
    /\ Truthy(api_key)
    /\ Truthy(project_id)
    /\ _client # NoClient
    /\ ~_client.vertexai

ExpectedBase == IF Truthy(args.filename) THEN args.filename
                ELSE sanitize_filename(args.prompt)

\* {stem}_{index}{suffix} with an override, {stem}_{index}_{salt}{suffix} without
IndexedName(index) ==
    IF Truthy(args.filename)
    THEN PathStem(ExpectedBase) \o <<"_">> \o IntToStr(index)
             \o SuffixOrDefault(ExpectedBase)
    ELSE PathStem(ExpectedBase) \o <<"_">> \o IntToStr(index) \o <<"_">>
             \o ShortSalt \o SuffixOrDefault(ExpectedBase)

\* C6: for count > 1 the images saved in two different loop iterations have
\* different filenames, and every filename carries the zero-based index of the
\* loop iteration that saved it, not the number of images written so far.
C6_IterationIndexInFilename ==
    args.count > 1 =>
        /\ \A a, b \in 1..Len(writes) :
               writes[a].iter # writes[b].iter => writes[a].name # writes[b].name
        /\ \A a \in 1..Len(writes) : writes[a].name = IndexedName(writes[a].iter)

\* C6 witness: count 2 with the override "r"; the first iteration saved two
\* images, so the third image written is the one of iteration 1, named r_1.png
C6_Witness ==
    /\ args.count = 2
    /\ args.filename = NameR
    /\ Len(writes) = 3
    /\ writes[3].iter = 1
    /\ writes[3].name = <<"r", "_", "1", ".", "p", "n", "g">>

\* C7: no two images saved during one generate call are written to the same
\* path, for any count and any number of image parts per response.  (Stated for
\* the calls with a filename override, whose names do not go through
\* sanitize_filename.)
C7_NoTwoWritesSamePath ==
    Truthy(args.filename) =>
        \A a, b \in 1..Len(writes) : a # b => writes[a].path # writes[b].path

\* C8: with count = 1 and a response of exactly one part the saved filename is
\* the override when one is given, else the sanitized original prompt, without
\* a suffix; the suffix is added exactly when count > 1 or the response has more
\* than one part.
C8_SuffixExactlyWhenSeveralExpected ==
    \A a \in 1..Len(writes) :
        /\ (args.count = 1 /\ writes[a].nparts = 1) => writes[a].name = ExpectedBase
        /\ (args.count > 1 \/ writes[a].nparts > 1)
               <=> writes[a].name = IndexedName(writes[a].iter)
        /\ IndexedName(writes[a].iter) # ExpectedBase

\* C8 witness: count 1, a negative prompt, no override, one part: the image is
\* named after the original prompt "a b"
C8_Witness ==
    /\ args.count = 1
    /\ Truthy(args.negative_prompt)
    /\ Len(writes) = 1
    /\ writes[1].nparts = 1
    /\ writes[1].name = <<"a", "_", "b", ".", "p", "n", "g">>

\* C9: when only one image is expected (count = 1 and a response of one part)
\* the saved filename has an extension, the default one when the base name has
\* none.
C9_SingleImageHasExtension ==
    \A a \in 1..Len(writes) :
        (args.count = 1 /\ writes[a].nparts = 1) => PathSuffix(writes[a].name) # Empty

\* a reference image that is appended to contents
RefLoads(ref) == ref.exists /\ ref.opens

\* the augmented prompt followed by the reference images that loaded, in order
ExpectedContents ==
    LET good == SelectSeq(args.reference_images, RefLoads)
    IN  <<[kind |-> "text", val |-> final_prompt]>>
            \o [k \in 1..Len(good) |-> [kind |-> "image", val |-> good[k].path]]

\* C10: a reference image that is missing or fails to load never stops generate:
\* contents is the augmented prompt followed by exactly the reference images
\* that loaded, in the order supplied, every request carries it, and the loop
\* goes through all count iterations.
C10_BadReferencesAreSkipped ==
    pc # "idle" =>
        /\ SubSeq(final_prompt, 1, Len(args.prompt)) = args.prompt
        /\ contents = ExpectedContents
        /\ \A k \in 1..Len(requests) : requests[k].contents = ExpectedContents
        /\ LoopEnded => Len(hist) = args.count

\* C10 witness: three reference images of which the second fails to load; both
\* requests of the call carried the prompt and the first and third image
C10_Witness ==
    /\ pc = "returned"
    /\ args.reference_images = <<RefOk("1"), RefCorrupt("2"), RefOk("3")>>
    /\ Len(requests) = 2
    /\ Len(requests[2].contents) = 3
    /\ requests[2].contents[3].val = <<"i", "3">>

(***************************************************************************)
(* _resolve_safety_threshold (checked under SpecThreshold).                *)
(***************************************************************************)
\* position of c in the alphabet when c is a letter of either case, else 0
LetterIndex(c) ==
    IF \E k \in 1..Len(LowerLetters) : c \in {LowerLetters[k], UpperLetters[k]}
    THEN CHOOSE k \in 1..Len(LowerLetters) : c \in {LowerLetters[k], UpperLetters[k]}
    ELSE 0

\* a is b in some letter case
SameIgnoringCase(a, b) ==
    /\ Len(a) = Len(b)
    /\ \A k \in 1..Len(a) :
          \/ a[k] = b[k]
          \/ LetterIndex(a[k]) # 0 /\ LetterIndex(a[k]) = LetterIndex(b[k])

\* r is s with every lower-case letter replaced by its capital and nothing
\* else changed
IsUpperCased(r, s) ==
    /\ Len(r) = Len(s)
    /\ \A k \in 1..Len(s) :
          IF \E j \in 1..Len(LowerLetters) : LowerLetters[j] = s[k]
          THEN r[k] = UpperLetters[LetterIndex(s[k])]
          ELSE r[k] = s[k]

\* C11: for every level, in any letter case, the resolved threshold is
\* BLOCK_ONLY_HIGH for BLOCK_SOME and BLOCK_FEW, BLOCK_LOW_AND_ABOVE for
\* BLOCK_MOST, BLOCK_NONE for BLOCK_NONE, and the level itself in upper case
\* for every other level; the resolution always yields a string.
C11_ThresholdResolved ==
    pc = "resolved" =>
        LET level == args.safety_filter_level
        IN  /\ valid_threshold \in Seq(STRING)
            /\ IF SameIgnoringCase(level, BLOCK_SOME) \/ SameIgnoringCase(level, BLOCK_FEW)
               THEN valid_threshold = BLOCK_ONLY_HIGH
               ELSE IF SameIgnoringCase(level, BLOCK_MOST)
               THEN valid_threshold = BLOCK_LOW_AND_ABOVE
               ELSE IF SameIgnoringCase(level, BLOCK_NONE)
               THEN valid_threshold = BLOCK_NONE
               ELSE IsUpperCased(valid_threshold, level)

\* a table level in mixed case has been resolved
C11_Witness ==
    /\ pc = "resolved"
    /\ args.safety_filter_level = <<"b", "L", "o", "c", "K", "_", "m", "O", "s", "t">>
    /\ valid_threshold = BLOCK_LOW_AND_ABOVE

(***************************************************************************)
(* The returned list.                                                      *)
(***************************************************************************)
\* a is an initial part of b
IsPrefix(a, b) == Len(a) <= Len(b) /\ SubSeq(b, 1, Len(a)) = a

\* write j was made before write k in loop order, then part order
WrittenBefore(j, k) ==
    \/ writes[j].iter < writes[k].iter
    \/ writes[j].iter = writes[k].iter /\ writes[j].part < writes[k].part

\* C15: at every moment of a generate call the saved list holds exactly the
\* paths of the images written so far, in the order they were written (by
\* iteration, then by part of the response); within one call the list only
\* grows at its end.
C15_SavedInWriteOrder ==
    /\ [](/\ Len(saved_files) = Len(writes)
          /\ \A k \in 1..Len(writes) : saved_files[k] = writes[k].path
          /\ \A j, k \in 1..Len(writes) : j < k => WrittenBefore(j, k))
    /\ [][calls' = calls => IsPrefix(saved_files, saved_files')]_vars

\* generate has returned two different paths written in different iterations
C15_Witness ==
    /\ pc = "returned"
    /\ Len(saved_files) = 3
    /\ saved_files[1] # saved_files[3]
    /\ writes[1].iter = 0 /\ writes[2].iter = 1 /\ writes[3].iter = 1
    /\ writes[2].part < writes[3].part

(***************************************************************************)
(* Partial failure and the number of returned files.                       *)
(***************************************************************************)
\* the number of images iteration n wrote
WritesIn(n) == Cardinality({k \in 1..Len(writes) : writes[k].iter = n})

\* generate has returned after some iteration failed and another succeeded
ReturnedAfterPartialFailure ==
    /\ pc = "returned"
    /\ \E k \in 1..Len(hist) : ~hist[k].ok
    /\ \E k \in 1..Len(hist) : hist[k].ok

\* C16 as stated: whenever generate returns after at least one iteration
\* failed and at least one other succeeded, the number of returned files is
\* strictly less than count.
C16_FewerFilesThanCount ==
    ReturnedAfterPartialFailure => Len(saved_files) < args.count

\* C16, amended: whenever generate returns after at least one iteration
\* failed and at least one other succeeded, and no iteration wrote more than
\* one image and no failed iteration wrote any, the number of returned files
\* is strictly less than count.
C16_FewerFilesWhenOneImageEach ==
    ( /\ ReturnedAfterPartialFailure
      /\ \A k \in 1..Len(hist) :
            WritesIn(k - 1) <= (IF hist[k].ok THEN 1 ELSE 0) )
        => Len(saved_files) < args.count

\* one iteration failed, the other wrote one image, one file is returned
C16_Witness ==
    /\ ReturnedAfterPartialFailure
    /\ args.count = 2
    /\ ~hist[1].ok /\ hist[2].ok
    /\ WritesIn(0) = 0 /\ WritesIn(1) = 1
    /\ Len(saved_files) = 1

(***************************************************************************)
(* Errors of the client construction inside generate.                      *)
(***************************************************************************)
\* C17: a client construction error (no api key and no project id) that
\* occurs during generate propagates out of generate at the iteration in which
\* it occurs: generate has raised it and no further iteration was run.
C17_ConstructionErrorRaisedAtOnce ==
    \A k \in 1..Len(hist) :
        hist[k].type = "ValueError" =>
            /\ pc = "raised"
            /\ exc = [type |-> "ValueError", iter |-> k - 1]
            /\ Len(hist) = k

(***************************************************************************)
(* The phases of one generate call.                                        *)
(***************************************************************************)
Ended == {"idle", "returned", "raised"}
Iterating == {"loop", "parts"}

\* C19: one generate call goes through prompt preparation and content
\* assembly, then the output directory, then the request iterations, then
\* returns or raises: the directory is ensured (and exists) before the first
\* request and before any image write, and a failure to ensure it ends the
\* call with no request issued and nothing written.
C19_PhaseOrder ==
    [][ /\ calls' # calls =>
              /\ pc \in Ended /\ pc' = "ensure"
              /\ final_prompt' = AugmentPrompt(args'.prompt, args'.negative_prompt,
                                               args'.person_generation)
              /\ contents'[1] = [kind |-> "text", val |-> final_prompt']
              /\ requests' = << >> /\ writes' = << >>
        /\ calls' = calls =>
              /\ pc \in Ended => pc' = pc
              /\ pc = "ensure" =>
                    /\ requests' = << >> /\ writes' = << >> /\ hist' = << >>
                    /\ pc' \in {"loop", "returned"} => dir_exists'
                    /\ pc' \notin {"loop", "returned"} =>
                          pc' = "raised" /\ exc'.type = "OSError"
              /\ pc \in Iterating => pc' \in Iterating \cup {"returned", "raised"}
              /\ (requests' # requests \/ writes' # writes) =>
                    pc \in Iterating /\ dir_exists
              /\ <<final_prompt', contents'>> = <<final_prompt, contents>> ]_vars

\* a call has issued its requests and written an image, the directory existing
C19_Witness ==
    /\ pc = "returned"
    /\ dir_exists
    /\ Len(requests) = 2
    /\ Len(writes) >= 1

(***************************************************************************)
(* The requests of one generate call.                                      *)
(***************************************************************************)
HarmCategories ==
    {"HARM_CATEGORY_HARASSMENT", "HARM_CATEGORY_HATE_SPEECH",
     "HARM_CATEGORY_SEXUALLY_EXPLICIT", "HARM_CATEGORY_DANGEROUS_CONTENT"}

\* the normalized threshold of the levels the calls of the model pass
ExpectedThreshold ==
    IF args.safety_filter_level = block_some THEN BLOCK_ONLY_HIGH
    ELSE IF args.safety_filter_level = BLOCK_MOST THEN BLOCK_LOW_AND_ABOVE
    ELSE args.safety_filter_level

\* C20: all requests of one generate call carry the same contents and the
\* same config; the config's safety settings are exactly the four harm
\* categories, each with the normalized threshold; a supplied seed is nowhere
\* in the config; what earlier iterations received, or how they failed, does
\* not change a later request.
C20_RequestsIdentical ==
    \A k \in 1..Len(requests) :
        LET config == requests[k].config
            settings == config.safety_settings
        IN  /\ requests[k].contents = requests[1].contents
            /\ requests[k].contents = contents
            /\ config = requests[1].config
            /\ DOMAIN config = {"response_modalities", "image_config", "safety_settings"}
            /\ DOMAIN config.image_config = {"aspect_ratio", "image_size"}
            /\ config.image_config.aspect_ratio = args.aspect_ratio
            /\ config.image_config.image_size = args.image_size
            /\ Len(settings) = 4
            /\ {settings[n].category : n \in 1..4} = HarmCategories
            /\ \A n \in 1..4 :
                  /\ DOMAIN settings[n] = {"category", "threshold"}
                  /\ settings[n].threshold = ExpectedThreshold

\* a call with a seed and a lower-case level has sent its second request after
\* its first iteration failed
C20_Witness ==
    /\ Len(requests) = 2
    /\ args.seed.given
    /\ args.safety_filter_level = block_some
    /\ Len(hist) >= 1 /\ ~hist[1].ok

(***************************************************************************)
(* The command line (checked under SpecCli).                               *)
(***************************************************************************)
\* the first value of the sequence that is neither None nor empty, else None
FirstGiven(values) ==
    IF \E k \in 1..Len(values) : Truthy(values[k])
    THEN values[CHOOSE k \in 1..Len(values) :
                    Truthy(values[k]) /\ \A j \in 1..(k - 1) : ~Truthy(values[j])]
    ELSE None

\* the api key and the project id sources of the process, in precedence order
KeySources == <<invocation.api_key, invocation.settings_api_key>>
ProjectSources ==
    <<invocation.project_id, invocation.settings_project_id,
      IF invocation.adc.raises THEN None ELSE invocation.adc.project>>
SourceNames == <<"flag", "settings", "adc">>

\* the process went through the authentication resolution of main
AuthResolved ==
    cli_pc \in {"generate", "exited"} /\ invocation.command = "generate"
        /\ consulted # << >>

\* C12 as stated, its second part: the project id is resolved (a source of
\* it is looked at) only when no API key is present.
C12_ProjectResolvedOnlyWithoutKey ==
    (cli_pc \in {"generate", "exited"} /\ consulted # << >>)
        => ~Truthy(FirstGiven(KeySources))

\* C12, amended: a resolved API key (flag, else settings) selects Studio mode
\* outright; the project id is resolved in every process that has a prompt,
\* whether or not an API key is present: flag, then settings, then ambient
\* credentials are looked at up to the first non-empty value, which is the
\* project id; it decides the mode (cloud) only when no API key is resolved.
C12_AuthResolution ==
    AuthResolved =>
        LET key == FirstGiven(KeySources)
            proj == FirstGiven(ProjectSources)
        IN  /\ consulted[1] = "flag"
            /\ \A k \in 1..Len(consulted) :
                  /\ consulted[k] = SourceNames[k]
                  /\ k < Len(consulted) => ~Truthy(ProjectSources[k])
            /\ Len(consulted) < 3 => Truthy(ProjectSources[Len(consulted)])
            /\ generators = 1 =>
                  /\ api_key = (IF Truthy(key) THEN key
                                ELSE invocation.settings_api_key)
                  /\ project_id = proj
                  /\ Truthy(key) \/ Truthy(proj)
                  /\ _client # NoClient =>
                        IF Truthy(key)
                        THEN /\ ~_client.vertexai
                             /\ _client.api_key = key
                             /\ _client.project = None
                        ELSE /\ _client.vertexai
                             /\ _client.api_key = None
                             /\ _client.project = proj
            /\ generators = 0 => ~Truthy(key) /\ ~Truthy(proj)

\* with an API key on the command line the ambient credentials were looked
\* at, and the client was built in Studio mode all the same
C12_Witness ==
    /\ cli_pc = "generate"
    /\ invocation.api_key = KeyFlag
    /\ consulted = <<"flag", "settings", "adc">>
    /\ project_id = ProjectAdc
    /\ _client # NoClient /\ ~_client.vertexai

\* the process has no prompt: none (or an empty one) on the command line and
\* nothing but white space on a stdin that is not a terminal
NoPrompt(inv) ==
    /\ inv.prompt \in {None, Empty}
    /\ inv.stdin.isatty \/ \A k \in 1..Len(inv.stdin.text) :
                              inv.stdin.text[k] \in Whitespace

\* no source gives an api key or a project id
NoCredentials(inv) ==
    /\ inv.api_key \in {None, Empty} /\ inv.settings_api_key \in {None, Empty}
    /\ inv.project_id \in {None, Empty} /\ inv.settings_project_id \in {None, Empty}
    /\ inv.adc.raises \/ inv.adc.project \in {None, Empty}

\* C13: a process exits with status 0 when generate returns (with however
\* few images) and when there is no prompt; with status 1 when neither an api
\* key nor a project id resolves (no generator is built, no request made),
\* when init fails, and when generate raises; init that does not fail exits
\* with 0, and there is no other exit status.
C13_ExitStatus ==
    [][ /\ runs' # runs =>
              LET inv == invocation'
              IN  IF inv.command = "init"
                  THEN /\ cli_pc' = "exited"
                       /\ exit_status' = (IF config_file.exists \/ inv.init_fault = "none"
                                          THEN 0 ELSE 1)
                  ELSE IF NoPrompt(inv)
                  THEN cli_pc' = "exited" /\ exit_status' = 0 /\ generators' = 0
                  ELSE IF NoCredentials(inv)
                  THEN /\ cli_pc' = "exited" /\ exit_status' = 1
                       /\ generators' = 0 /\ calls' = 0
                       /\ requests' = << >> /\ ctorCalls' = 0
                  ELSE cli_pc' = "generate" /\ exit_status' = 0 - 1 /\ generators' = 1
        /\ (cli_pc = "generate" /\ cli_pc' = "exited") =>
              \/ pc = "returned" /\ exit_status' = 0
              \/ pc = "raised" /\ exit_status' = 1
        /\ cli_pc' = "exited" <=> exit_status' \in {0, 1}
        /\ cli_pc' # "exited" => exit_status' = 0 - 1 ]_vars

\* a process has exited with 0 after generate returned one image of two
C13_Witness ==
    /\ cli_pc = "exited"
    /\ exit_status = 0
    /\ pc = "returned"
    /\ args.count = 2
    /\ Len(saved_files) = 1
    /\ \E k \in 1..Len(hist) : ~hist[k].ok

\* C14: init leaves an existing configuration file as it is, content and
\* mode, and only reports it (status 0); when the file does not exist, init
\* (unless the file system fails it) creates it with the default content and
\* mode 0o600; so a second init leaves the file of the first.
C14_InitIdempotent ==
    [][ (runs' # runs /\ invocation'.command = "init") =>
            IF config_file.exists
            THEN config_file' = config_file /\ exit_status' = 0
            ELSE invocation'.init_fault = "none" =>
                    /\ config_file' = [exists |-> TRUE, content |-> "default_config",
                                       mode |-> "0o600"]
                    /\ exit_status' = 0 ]_vars

\* a second init (one the file system would have failed) found the file the
\* first had created, and left it
C14_Witness ==
    /\ runs = 2
    /\ invocation.command = "init"
    /\ invocation.init_fault = "chmod"
    /\ exit_status = 0
    /\ config_file = DefaultFile

\* C18: every call of generate made by the command line has count >= 1 and a
\* non-empty prompt.
C18_CountAndPromptGiven ==
    (cli_pc = "generate" /\ calls >= 1) =>
        args.count >= 1 /\ Truthy(args.prompt)

(***************************************************************************)
(* What a raising generate leaves behind.                                  *)
(***************************************************************************)
\* C21: whenever generate has raised, whether because the output directory
\* could not be ensured or by the re-raise in the last iteration, the saved
\* list is empty and no image was written by that call.
C21_RaisesWithNothingSaved ==
    pc = "raised" =>
        /\ saved_files = << >>
        /\ writes = << >>
        /\ \/ exc.type = "OSError" /\ hist = << >> /\ requests = << >>
           \/ exc.iter = args.count - 1 /\ Len(hist) = args.count

\* generate has raised in its second iteration, after a first iteration that
\* got a response and ended without an exception
C21_Witness ==
    /\ pc = "raised"
    /\ exc.iter = 1
    /\ Len(requests) = 2
    /\ hist[1].ok
    /\ saved_files = << >>

====
